---- MODULE Spec2Model ----
(***************************************************************************)
(* Model of the dog-walk tracker core: the WalkProvider session            *)
(* (contexts/WalkContext) and the DatabaseService store                    *)
(* (services/database), both found in src/unnamed/part_000.                *)
(*                                                                         *)
(* Encoding of JavaScript / SQL values:                                    *)
(*   - an optional or nullable value is a sequence of length <= 1:         *)
(*     <<>> is undefined / null / SQL NULL, <<v>> is the value v;          *)
(*   - a Date is a number of milliseconds; its ISO-8601 text is the pair   *)
(*     <<seconds, milliseconds>>, ordered as the text is ordered;          *)
(*   - a table is the sequence of its rows in rowid order.                 *)
(* Every awaited native call is one step of the model, so that other       *)
(* callbacks interleave exactly where the event loop lets them.            *)
(***************************************************************************)
EXTENDS Integers, Sequences, FiniteSets, TLC

\* ------------------------------------------------------------- bounds ----
MaxBatch == 2
MaxUiCalls == 3
MaxInits == 1
MaxStarts == 1
MaxStops == 1
MaxSamples == 1
MaxTicks == 1
MaxRoute == 4

\* ------------------------------------------------- values and helpers ----
Null == <<>>

Some(v) == <<v>>

IsNull(o) == o = <<>>

Val(o) == o[1]

\* JavaScript `x || null` on an optional number: undefined and 0 become null
OrNull(o) == IF IsNull(o) \/ o = Some(0) THEN Null ELSE o

\* Date.prototype.toISOString: fixed-width text, seconds then milliseconds
toISOString(ms) == <<ms \div 1000, ms % 1000>>

\* comparison of two ISO-8601 texts as SQLite compares TEXT
IsoLess(a, b) == a[1] < b[1] \/ (a[1] = b[1] /\ a[2] < b[2])

RECURSIVE GCD(_, _)
GCD(a, b) == IF b = 0 THEN a ELSE GCD(b, a % b)

\* an exact quotient n/d (d > 0) in lowest terms, as <<numerator, denominator>>
Ratio(n, d) == LET g == GCD(n, d) IN <<n \div g, d \div g>>

\* ------------------------------------------------------------ state ------
VARIABLES
  \* DatabaseService and the database file behind it
  db,          \* this.db is set (a handle was opened)
  tables,      \* the walks and route_points tables exist in the file
  fkOn,        \* whether the SQLite build enforces FOREIGN KEY clauses
  walks,       \* rows of table walks
  points,      \* rows of table route_points
  seqWalk,     \* AUTOINCREMENT counter of walks
  seqPoint,    \* AUTOINCREMENT counter of route_points
  txn,         \* the connection's open transaction, with its rollback image
  initPc,      \* position of the init() call
  nInit,       \* init() calls made so far
  srp,         \* per caller: the saveRoutePoints call in flight
  del,         \* the deleteWalk call in flight
  last,        \* the last result returned to the presentation layer
  nUi,         \* store calls made by the presentation layer so far
  \* WalkProvider
  isWalking,
  walkStartTime,
  startLocation,
  currentLocation,
  routePoints,
  locationSubscription,
  liveSubs,    \* subscriptions the location provider is still serving
  removed,     \* per subscription: number of remove() calls received
  nSub,        \* subscriptions created so far
  start,       \* per startWalk call: its position and locals
  stop,        \* per stopWalk call: its position and closure
  nStart,
  nStop,
  nSample,
  now,         \* the clock, in milliseconds
  nTick

storeVars == <<db, tables, fkOn, walks, points, seqWalk, seqPoint, txn>>
initVars == <<initPc, nInit>>
uiVars == <<del, last, nUi>>
sessVars == <<isWalking, walkStartTime, startLocation, currentLocation,
              routePoints, locationSubscription>>
subVars == <<liveSubs, removed, nSub>>
callVars == <<start, stop, nStart, nStop>>
envVars == <<nSample, now, nTick>>
vars == <<storeVars, initVars, srp, uiVars, sessVars, subVars, callVars, envVars>>

\* -------------------------------------------------------- input sets -----
\* the presentation layer is caller 0, the k-th stopWalk call is caller k
UI == 0
\* one call more than the bounds admit can be made where a button is pressed
\* again while the call it made is in flight
StartIds == 1..(MaxStarts + 1)
StopIds == 1..(MaxStops + 1)
Callers == {UI} \cup StopIds

\* the amounts by which the clock advances between events, in milliseconds
TickSteps == {1500}
SampleIntervalMs == 5000

\* coordinates in whole degrees
Coords == { [latitude |-> 0, longitude |-> 0],
            [latitude |-> 1, longitude |-> 1] }

WalkIds == 1..2

\* route points handed to the store by the presentation layer: a point of
\* walk 1, a point of walk 2 and a point whose latitude is missing
UiPoints ==
  { [walkId |-> 1, latitude |-> Some(1), longitude |-> Some(1),
     timestamp |-> toISOString(0), accuracy |-> Null],
    [walkId |-> 2, latitude |-> Some(0), longitude |-> Some(1),
     timestamp |-> toISOString(5000), accuracy |-> Some(3)],
    [walkId |-> 1, latitude |-> Null, longitude |-> Some(1),
     timestamp |-> toISOString(5000), accuracy |-> Null] }

UiBatches == UNION { [1..n -> UiPoints] : n \in 0..MaxBatch }

UiWalks ==
  { [startTime |-> toISOString(0), endTime |-> toISOString(3000),
     duration |-> 3, startLatitude |-> 0, startLongitude |-> 1,
     endLatitude |-> Some(1), endLongitude |-> Some(1),
     distance |-> Some(111195), createdAt |-> toISOString(3000)],
    [startTime |-> toISOString(1500), endTime |-> toISOString(3000),
     duration |-> 1, startLatitude |-> 1, startLongitude |-> 1,
     endLatitude |-> Null, endLongitude |-> Null,
     distance |-> Some(0), createdAt |-> toISOString(3000)] }

\* ------------------------------------------------------- SQL engine -----
\* what the database file holds, as saved at BEGIN and restored by ROLLBACK
Image == [tables |-> tables, walks |-> walks, points |-> points,
          seqWalk |-> seqWalk, seqPoint |-> seqPoint]

EmptyImage == [tables |-> FALSE, walks |-> <<>>, points |-> <<>>,
               seqWalk |-> 0, seqPoint |-> 0]

\* ROLLBACK, explicit or automatic: the file is as it was at BEGIN
Restore ==
  /\ tables' = txn.image.tables
  /\ walks' = txn.image.walks
  /\ points' = txn.image.points
  /\ seqWalk' = txn.image.seqWalk
  /\ seqPoint' = txn.image.seqPoint
  /\ txn' = [active |-> FALSE, image |-> EmptyImage]

NoTxn == [active |-> FALSE, image |-> EmptyImage]

\* how a statement can end: it takes effect, it fails and leaves the
\* transaction as it was (a constraint error), or it fails with an I/O error
\* on which SQLite rolls the open transaction back by itself
Outcomes == {"ok", "error", "abort"}

\* a statement that is not valid in the current state ends in "error"
Eff(r, valid) == IF valid THEN r ELSE "error"

\* the effect of one data statement on the file
StoreStep(e, newWalks, newPoints, newSeqWalk, newSeqPoint) ==
  /\ UNCHANGED <<db, fkOn>>
  /\ CASE e = "ok" ->
           /\ walks' = newWalks
           /\ points' = newPoints
           /\ seqWalk' = newSeqWalk
           /\ seqPoint' = newSeqPoint
           /\ UNCHANGED <<tables, txn>>
       [] e = "abort" /\ txn.active -> Restore
       [] OTHER -> UNCHANGED <<tables, walks, points, seqWalk, seqPoint, txn>>

\* the row INSERT INTO walks stores for the parameters saveWalk binds
WalkRow(w) ==
  [id |-> seqWalk + 1,
   startTime |-> w.startTime,
   endTime |-> w.endTime,
   duration |-> w.duration,
   startLatitude |-> w.startLatitude,
   startLongitude |-> w.startLongitude,
   endLatitude |-> OrNull(w.endLatitude),
   endLongitude |-> OrNull(w.endLongitude),
   distance |-> OrNull(w.distance),
   createdAt |-> w.createdAt]

\* the row INSERT INTO route_points stores for the parameters bound
PointRow(p, id) ==
  [id |-> id,
   walkId |-> p.walkId,
   latitude |-> Val(p.latitude),
   longitude |-> Val(p.longitude),
   timestamp |-> p.timestamp,
   accuracy |-> OrNull(p.accuracy)]

WalkExists(id) == \E i \in 1..Len(walks) : walks[i].id = id

\* NOT NULL and FOREIGN KEY constraints of table route_points
PointValid(p) ==
  /\ tables
  /\ ~IsNull(p.latitude)
  /\ ~IsNull(p.longitude)
  /\ fkOn => WalkExists(p.walkId)

InsertWalkStmt(w, r) ==
  StoreStep(Eff(r, tables), Append(walks, WalkRow(w)), points,
            seqWalk + 1, seqPoint)

InsertPointStmt(p, r) ==
  StoreStep(Eff(r, PointValid(p)), walks,
            Append(points, PointRow(p, seqPoint + 1)), seqWalk, seqPoint + 1)

PointsNotOf(id) == SelectSeq(points, LAMBDA row : row.walkId # id)

PointsOf(id) == SelectSeq(points, LAMBDA row : row.walkId = id)

WalksNot(id) == SelectSeq(walks, LAMBDA row : row.id # id)

\* deleteWalk whose first statement removes no route point
DeleteNoPoints(id, r) ==
  StoreStep(Eff(r, tables), walks, points, seqWalk, seqPoint)

DeletePointsStmt(id, r) ==
  StoreStep(Eff(r, tables), walks, PointsNotOf(id), seqWalk, seqPoint)

\* DELETE FROM walks: with foreign keys enforced, ON DELETE CASCADE removes
\* the route points of the walk as well
DeleteWalkStmt(id, r) ==
  StoreStep(Eff(r, tables), WalksNot(id),
            IF fkOn THEN PointsNotOf(id) ELSE points, seqWalk, seqPoint)

\* ---------------------------------------------------------- queries -----
RECURSIVE InsertAsc(_, _)
InsertAsc(row, s) ==
  IF s = <<>> THEN <<row>>
  ELSE IF IsoLess(row.timestamp, Head(s).timestamp) THEN <<row>> \o s
       ELSE <<Head(s)>> \o InsertAsc(row, Tail(s))

\* ORDER BY timestamp ASC (rows of equal timestamp stay in rowid order)
RECURSIVE OrderByTimestampAsc(_)
OrderByTimestampAsc(s) ==
  IF s = <<>> THEN <<>>
  ELSE InsertAsc(s[Len(s)], OrderByTimestampAsc(SubSeq(s, 1, Len(s) - 1)))

RECURSIVE InsertDesc(_, _)
InsertDesc(row, s) ==
  IF s = <<>> THEN <<row>>
  ELSE IF IsoLess(Head(s).createdAt, row.createdAt) THEN <<row>> \o s
       ELSE <<Head(s)>> \o InsertDesc(row, Tail(s))

\* ORDER BY createdAt DESC (rows of equal createdAt stay in rowid order)
RECURSIVE OrderByCreatedAtDesc(_)
OrderByCreatedAtDesc(s) ==
  IF s = <<>> THEN <<>>
  ELSE InsertDesc(s[Len(s)], OrderByCreatedAtDesc(SubSeq(s, 1, Len(s) - 1)))

RECURSIVE SumDuration(_)
SumDuration(s) == IF s = <<>> THEN 0 ELSE Head(s).duration + SumDuration(Tail(s))

\* SUM(COALESCE(distance, 0))
RECURSIVE SumDistance(_)
SumDistance(s) ==
  IF s = <<>> THEN 0
  ELSE (IF IsNull(Head(s).distance) THEN 0 ELSE Val(Head(s).distance))
       + SumDistance(Tail(s))

\* the literal { totalWalks: 0, totalDuration: 0, totalDistance: 0,
\* averageDuration: 0 } of getWalkStats
ZeroStats ==
  [totalWalks |-> Some(0), totalDuration |-> Some(0),
   totalDistance |-> Some(0), averageDuration |-> Some(<<0, 1>>)]

\* an aggregate row that counts only the walks with a distance
StatsRowCountsDistances ==
  LET n == Len(SelectSeq(walks, LAMBDA row : ~IsNull(row.distance))) IN
  [totalWalks |-> Some(n),
   totalDuration |-> IF n = 0 THEN Null ELSE Some(SumDuration(walks)),
   totalDistance |-> IF n = 0 THEN Null ELSE Some(SumDistance(walks)),
   averageDuration |-> IF n = 0 THEN Null
                       ELSE Some(Ratio(SumDuration(walks), n))]

\* the one row of SELECT COUNT(*), SUM(duration), SUM(COALESCE(distance, 0)),
\* AVG(duration) FROM walks: SUM and AVG over no rows are NULL
StatsRow ==
  LET n == Len(walks) IN
  [totalWalks |-> Some(n),
   totalDuration |-> IF n = 0 THEN Null ELSE Some(SumDuration(walks)),
   totalDistance |-> IF n = 0 THEN Null ELSE Some(SumDistance(walks)),
   averageDuration |-> IF n = 0 THEN Null
                       ELSE Some(Ratio(SumDuration(walks), n))]

\* the value each operation resolves to, given how its statement ended;
\* `ready` is the `this.db` check made when the operation is called
saveWalk(w, ready, r) ==
  IF ready /\ Eff(r, tables) = "ok" THEN Some(seqWalk + 1) ELSE Null

saveRoutePoint(p, ready, r) ==
  IF ready /\ Eff(r, PointValid(p)) = "ok" THEN Some(seqPoint + 1) ELSE Null

\* SELECT * FROM route_points WHERE walkId = ? ORDER BY timestamp ASC
SelectRoutePoints(id) == OrderByTimestampAsc(PointsOf(id))

\* SELECT * FROM walks ORDER BY createdAt DESC
SelectAllWalks == OrderByCreatedAtDesc(walks)

\* SELECT * FROM walks ORDER BY createdAt DESC LIMIT ?
SelectRecentWalks(limit) ==
  SubSeq(SelectAllWalks, 1,
         IF limit < Len(SelectAllWalks) THEN limit ELSE Len(SelectAllWalks))

\* getFirstAsync('SELECT * FROM walks WHERE id = ?') || null
SelectWalkById(id) ==
  LET found == SelectSeq(walks, LAMBDA row : row.id = id)
  IN IF found = <<>> THEN Null ELSE Some(Head(found))

getRoutePoints(id, ready, r) ==
  IF ready /\ Eff(r, tables) = "ok" THEN SelectRoutePoints(id) ELSE <<>>

getAllWalks(ready, r) ==
  IF ready /\ Eff(r, tables) = "ok" THEN SelectAllWalks ELSE <<>>

getRecentWalks(limit, ready, r) ==
  IF ready /\ Eff(r, tables) = "ok" THEN SelectRecentWalks(limit) ELSE <<>>

getWalkById(id, ready, r) ==
  IF ready /\ Eff(r, tables) = "ok" THEN SelectWalkById(id) ELSE Null

\* `stats || {zeros}`: the aggregate query always yields a row, so the
\* fallback literal is returned only on the not-initialised and error paths
getWalkStats(ready, r) ==
  IF ready /\ Eff(r, tables) = "ok" THEN StatsRow ELSE ZeroStats

\* ------------------------------------------------- DatabaseService.init --
\* init() is called: it awaits SQLite.openDatabaseAsync
init ==
  /\ nInit < MaxInits
  /\ initPc \in {"idle", "done"}
  /\ initPc' = "opening"
  /\ nInit' = nInit + 1
  /\ UNCHANGED <<storeVars, srp, uiVars, sessVars, subVars, callVars, envVars>>

\* openDatabaseAsync settles: this.db is assigned, or the error is logged
InitOpen(ok) ==
  /\ initPc = "opening"
  /\ db' = (db \/ ok)
  /\ initPc' = IF ok THEN "creating" ELSE "done"
  /\ UNCHANGED <<tables, fkOn, walks, points, seqWalk, seqPoint, txn, nInit>>
  /\ UNCHANGED <<srp, uiVars, sessVars, subVars, callVars, envVars>>

\* a script that creates both tables anew, dropping what they held
createTablesAnew(ok) ==
  /\ initPc = "creating"
  /\ tables' = (tables \/ ok)
  /\ walks' = IF ok THEN <<>> ELSE walks
  /\ points' = IF ok THEN <<>> ELSE points
  /\ initPc' = "done"
  /\ UNCHANGED <<db, fkOn, seqWalk, seqPoint, txn, nInit>>
  /\ UNCHANGED <<srp, uiVars, sessVars, subVars, callVars, envVars>>

\* the CREATE TABLE IF NOT EXISTS script settles
createTables(ok) ==
  /\ initPc = "creating"
  /\ tables' = (tables \/ ok)
  /\ initPc' = "done"
  /\ UNCHANGED <<db, fkOn, walks, points, seqWalk, seqPoint, txn, nInit>>
  /\ UNCHANGED <<srp, uiVars, sessVars, subVars, callVars, envVars>>

\* ------------------------------------ store calls of the presentation ----
NoResult == [op |-> "none", arg |-> Null, uninit |-> FALSE, res |-> Null,
             pre |-> EmptyImage]

Returned(op, arg, ready, res, pre) ==
  [op |-> op, arg |-> arg, uninit |-> ~ready, res |-> res, pre |-> pre]

SrpIdle == [pc |-> "idle", batch |-> <<>>, i |-> 0, pre |-> EmptyImage,
            clean |-> TRUE]

DelIdle == [pc |-> "idle", id |-> 0, pre |-> EmptyImage]

\* no multi-statement store call is in flight
NoStoreCall == del.pc = "idle" /\ \A c \in Callers : srp[c].pc = "idle"

UiFrame == UNCHANGED <<initVars, sessVars, subVars, callVars, envVars>>

UiSaveWalk(w, r) ==
  /\ nUi < MaxUiCalls
  /\ IF db THEN InsertWalkStmt(w, r) ELSE UNCHANGED storeVars
  /\ last' = Returned("saveWalk", w, db, saveWalk(w, db, r), Image)
  /\ nUi' = nUi + 1
  /\ UNCHANGED <<srp, del>>
  /\ UiFrame

UiSaveRoutePoint(p, r) ==
  /\ nUi < MaxUiCalls
  /\ IF db THEN InsertPointStmt(p, r) ELSE UNCHANGED storeVars
  /\ last' = Returned("saveRoutePoint", p, db, saveRoutePoint(p, db, r), Image)
  /\ nUi' = nUi + 1
  /\ UNCHANGED <<srp, del>>
  /\ UiFrame

\* the five read operations: each is one SELECT
UiQuery(op, arg, res) ==
  /\ nUi < MaxUiCalls
  /\ last' = Returned(op, arg, db, res, Image)
  /\ nUi' = nUi + 1
  /\ UNCHANGED <<storeVars, srp, del>>
  /\ UiFrame

UiGetRoutePoints(id, r) ==
  UiQuery("getRoutePoints", id, getRoutePoints(id, db, r))

UiGetAllWalks(r) == UiQuery("getAllWalks", Null, getAllWalks(db, r))

UiGetRecentWalks(limit, r) ==
  UiQuery("getRecentWalks", limit, getRecentWalks(limit, db, r))

UiGetWalkById(id, r) == UiQuery("getWalkById", id, getWalkById(id, db, r))

UiGetWalkStats(r) == UiQuery("getWalkStats", Null, getWalkStats(db, r))

\* --------------------------------------------------------- WalkProvider --
SubIds == StartIds

Range(q) == { q[i] : i \in DOMAIN q }

\* remove() is called on each subscription of q, in order
RemoveCalls(q) ==
  /\ removed' = [x \in SubIds |->
                   removed[x] + Cardinality({ i \in DOMAIN q : q[i] = x })]
  /\ liveSubs' = liveSubs \ Range(q)

\* the cleanup of the [locationSubscription] effect, which React runs when
\* the stored handle changes: remove() on the handle being replaced
EffectCleanup(new) ==
  IF locationSubscription # new /\ ~IsNull(locationSubscription)
  THEN <<Val(locationSubscription)>> ELSE <<>>

\* stopLocationTracking as a closure that captured the handle `sub`
stopLocationTracking(sub) ==
  IF IsNull(sub)
  THEN UNCHANGED <<locationSubscription, liveSubs, removed>>
  ELSE /\ locationSubscription' = Null
       /\ RemoveCalls(<<Val(sub)>> \o EffectCleanup(Null))

\* A distance is a JavaScript number, an IEEE-754 double. The doubles that
\* occur here are non-negative multiples of 2^-36 metres below 2^21 metres;
\* the double n * 2^-36 is written <<n \div 2^28, n % 2^28>>.
Base == 268435456

ZeroMetres == <<0, 0>>

\* the spacing of the doubles around n * 2^-36, in units of 2^-36: a double
\* has 53 significant bits
Ulp(hi) ==
  IF hi < 33554432 THEN 1
  ELSE IF hi < 67108864 THEN 2
  ELSE IF hi < 134217728 THEN 4
  ELSE IF hi < 268435456 THEN 8
  ELSE 16

\* x + y on doubles: the exact sum rounded to the nearest double, a tie to
\* the one whose last bit is 0
FloatAdd(x, y) ==
  LET lo0 == x[2] + y[2]
      hi == x[1] + y[1] + lo0 \div Base
      lo == lo0 % Base
      u == Ulp(hi)
      r == lo % u
      down == lo - r
      up == r * 2 > u \/ (r * 2 = u /\ (down \div u) % 2 = 1)
      lo1 == IF up THEN down + u ELSE down
  IN <<hi + lo1 \div Base, lo1 % Base>>

\* the whole millimetres of a distance; the walk record and the store carry
\* a distance as this number
Millimetres(x) ==
  (x[1] \div 256) * 1000
    + ((x[1] % 256) * 1000 + ((x[2] \div 1024) * 1000) \div 262144) \div 256

\* the whole-degree coordinates of the routes that are measured
RouteCoords == Coords \cup { [latitude |-> 0, longitude |-> 1] }

\* a distance that counts a leg only when it does not lead south
calculateDistanceOneWay(a, b) ==
  LET dLat == IF a.latitude < b.latitude THEN b.latitude - a.latitude
              ELSE a.latitude - b.latitude
      dLon == IF a.longitude < b.longitude THEN b.longitude - a.longitude
              ELSE a.longitude - b.longitude
  IN CASE dLat + dLon = 0 \/ a.latitude > b.latitude -> ZeroMetres
       [] dLat + dLon = 1 -> <<28465901, 59326125>>
       [] OTHER -> <<40255841, 162569252>>

\* great-circle distance between two coordinates of RouteCoords: the value
\* of the Haversine formula with R = 6371e3 for points that are equal
\* (0), one degree apart along the equator or along a meridian
\* (111194.92664455874) or (0,0) and (1,1) (157249.38127194397)
calculateDistance(a, b) ==
  LET dLat == IF a.latitude < b.latitude THEN b.latitude - a.latitude
              ELSE a.latitude - b.latitude
      dLon == IF a.longitude < b.longitude THEN b.longitude - a.longitude
              ELSE a.longitude - b.longitude
  IN CASE dLat + dLon = 0 -> ZeroMetres
       [] dLat + dLon = 1 -> <<28465901, 59326125>>
       [] OTHER -> <<40255841, 162569252>>

\* totalDistance after the turns i = 1 .. n - 1 of the for loop
RECURSIVE RouteSum(_, _)
RouteSum(pts, n) ==
  IF n < 2 THEN ZeroMetres
  ELSE FloatAdd(RouteSum(pts, n - 1), calculateDistance(pts[n - 1], pts[n]))

\* a route length that leaves out the first leg
calculateRouteDistanceFromSecond(pts) ==
  IF Len(pts) < 2 THEN ZeroMetres ELSE RouteSum(Tail(pts), Len(pts) - 1)

calculateRouteDistance(pts) ==
  IF Len(pts) < 2 THEN ZeroMetres ELSE RouteSum(pts, Len(pts))

Origin == [latitude |-> 0, longitude |-> 0]

\* the value a call resolves with when its function ends without `return`
Undefined == "undefined"

StartIdle == [pc |-> "idle", fix |-> "none", ret |-> "none"]

StopIdle ==
  [pc |-> "idle", walkStartTime |-> 0, startLocation |-> Origin,
   routePoints |-> <<>>, sub |-> Null, endLocation |-> Null,
   walkData |-> Null, walkId |-> Null, routeSaved |-> "none", clean |-> TRUE,
   ret |-> "none"]

\* the walkData object stopWalk hands to saveWalk
WalkData(c, endLocation) ==
  [startTime |-> toISOString(c.walkStartTime),
   endTime |-> toISOString(now),
   duration |-> (now - c.walkStartTime) \div 1000,
   startLatitude |-> c.startLocation.latitude,
   startLongitude |-> c.startLocation.longitude,
   endLatitude |-> IF IsNull(endLocation) THEN Null
                   ELSE Some(Val(endLocation).latitude),
   endLongitude |-> IF IsNull(endLocation) THEN Null
                    ELSE Some(Val(endLocation).longitude),
   distance |-> Some(Millimetres(calculateRouteDistance(c.routePoints))),
   createdAt |-> toISOString(now)]

\* routePoints.map((point, index) => ...) of stopWalk
\* route points whose timestamps are counted from index 1
RoutePointsDataFromOne(c, walkId) ==
  [i \in 1..Len(c.routePoints) |->
     [walkId |-> walkId, latitude |-> Some(c.routePoints[i].latitude),
      longitude |-> Some(c.routePoints[i].longitude),
      timestamp |-> toISOString(c.walkStartTime + i * SampleIntervalMs),
      accuracy |-> Null]]

RoutePointsData(c, walkId) ==
  [i \in 1..Len(c.routePoints) |->
     [walkId |-> walkId,
      latitude |-> Some(c.routePoints[i].latitude),
      longitude |-> Some(c.routePoints[i].longitude),
      timestamp |-> toISOString(c.walkStartTime + (i - 1) * SampleIntervalMs),
      accuracy |-> Null]]

\* a reset that leaves startLocation set
ResetKeepsStartLocation ==
  /\ isWalking' = FALSE
  /\ walkStartTime' = Null
  /\ routePoints' = <<>>
  /\ UNCHANGED <<startLocation, currentLocation>>

\* "Reset state" at the end of the try block of stopWalk
ResetState ==
  /\ isWalking' = FALSE
  /\ walkStartTime' = Null
  /\ startLocation' = Null
  /\ routePoints' = <<>>
  /\ UNCHANGED currentLocation

\* a catch block that stops tracking but leaves the session state alone
CatchKeepsState(c) ==
  /\ stopLocationTracking(c.sub)
  /\ UNCHANGED <<isWalking, walkStartTime, startLocation, routePoints,
                 currentLocation>>
  /\ UNCHANGED nSub

\* the catch block of stopWalk
CatchReset(c) ==
  /\ stopLocationTracking(c.sub)
  /\ ResetState
  /\ UNCHANGED nSub

\* a stopWalk that tells its caller when the walk was not stored
StopDoneSignals(k, walkId, routeSaved, ok) ==
  /\ stop' = [stop EXCEPT ![k] =
        [StopIdle EXCEPT !.pc = "done", !.walkId = walkId,
                         !.routeSaved = routeSaved,
                         !.clean = stop[k].clean /\ ok,
                         !.ret = IF IsNull(walkId) \/ routeSaved # "true"
                                 THEN "PersistenceFailed" ELSE Undefined]]
  /\ UNCHANGED <<start, nStart, nStop>>
  /\ IF routeSaved = "throw" THEN CatchReset(stop[k])
     ELSE ResetState /\ UNCHANGED <<locationSubscription, subVars>>

\* a stopWalk without its catch block: an exception ends it before the reset
StopDoneThrows(k, walkId, routeSaved, ok) ==
  /\ stop' = [stop EXCEPT ![k] =
        [StopIdle EXCEPT !.pc = "done", !.walkId = walkId,
                         !.routeSaved = routeSaved,
                         !.clean = stop[k].clean /\ ok,
                         !.ret = Undefined]]
  /\ UNCHANGED <<start, nStart, nStop>>
  /\ IF routeSaved = "throw"
     THEN UNCHANGED <<sessVars, subVars>>
     ELSE ResetState /\ UNCHANGED <<locationSubscription, subVars>>

\* stopWalk runs to its end after saveWalk or saveRoutePoints has settled
StopDone(k, walkId, routeSaved, ok) ==
  /\ stop' = [stop EXCEPT ![k] =
        [StopIdle EXCEPT !.pc = "done", !.walkId = walkId,
                         !.routeSaved = routeSaved,
                         !.clean = stop[k].clean /\ ok,
                         !.ret = Undefined]]
  /\ UNCHANGED <<start, nStart, nStop>>
  /\ IF routeSaved = "throw" THEN CatchReset(stop[k])
     ELSE ResetState /\ UNCHANGED <<locationSubscription, subVars>>

\* ------------------------------------- DatabaseService.saveRoutePoints ---
\* the call has passed `!this.db || routePoints.length === 0` and awaits BEGIN
SrpCalled(batch) ==
  [pc |-> "begin", batch |-> batch, i |-> 1, pre |-> Image, clean |-> TRUE]

\* a step of the call that does not settle it
SrpStep(c, rec) ==
  /\ srp' = [srp EXCEPT ![c] = rec]
  /\ UNCHANGED <<last, sessVars, subVars, callVars>>

\* the call settles: true, false, or the exception of a failed ROLLBACK;
\* the awaiting caller resumes in the same turn of the event loop
SrpReturn(c, res, ok) ==
  /\ srp' = [srp EXCEPT ![c] = SrpIdle]
  /\ IF c = UI
     THEN /\ last' = Returned("saveRoutePoints", srp[c].batch, TRUE, res,
                              srp[c].pre)
          /\ UNCHANGED <<sessVars, subVars, callVars>>
     ELSE /\ StopDone(c, stop[c].walkId, res, srp[c].clean /\ ok)
          /\ UNCHANGED last

SrpFrame == UNCHANGED <<initVars, del, nUi, envVars>>

\* BEGIN TRANSACTION: an error when the connection is already in one
SrpBegin(c) ==
  /\ srp[c].pc = "begin"
  /\ IF txn.active
     THEN /\ UNCHANGED storeVars
          /\ SrpStep(c, [srp[c] EXCEPT !.pc = "rollback"])
     ELSE /\ txn' = [active |-> TRUE, image |-> Image]
          /\ UNCHANGED <<db, tables, fkOn, walks, points, seqWalk, seqPoint>>
          /\ SrpStep(c, [srp[c] EXCEPT !.pc = "insert"])
  /\ SrpFrame

\* one turn of the for loop: INSERT INTO route_points
SrpInsert(c, r) ==
  /\ srp[c].pc = "insert"
  /\ LET p == srp[c].batch[srp[c].i]
         e == Eff(r, PointValid(p))
     IN /\ InsertPointStmt(p, r)
        /\ SrpStep(c, [srp[c] EXCEPT
                         !.pc = IF e # "ok" THEN "rollback"
                                ELSE IF srp[c].i = Len(srp[c].batch)
                                     THEN "commit" ELSE "insert",
                         !.i = IF e = "ok" THEN @ + 1 ELSE @,
                         !.clean = @ /\ r = "ok"])
  /\ SrpFrame

\* COMMIT: an error when no transaction is open
SrpCommit(c, r) ==
  /\ srp[c].pc = "commit"
  /\ LET e == Eff(r, txn.active)
     IN CASE e = "ok" ->
               /\ txn' = NoTxn
               /\ UNCHANGED <<db, tables, fkOn, walks, points, seqWalk,
                              seqPoint>>
               /\ SrpReturn(c, "true", TRUE)
          [] e = "abort" ->
               /\ Restore
               /\ UNCHANGED <<db, fkOn>>
               /\ SrpStep(c, [srp[c] EXCEPT !.pc = "rollback",
                                            !.clean = FALSE])
          [] OTHER ->
               /\ UNCHANGED storeVars
               /\ SrpStep(c, [srp[c] EXCEPT !.pc = "rollback",
                                            !.clean = @ /\ r = "ok"])
  /\ SrpFrame

\* a catch block that only reports failure, so that the transaction is
\* ended without undoing the inserts already made
SrpNoRollback(c) ==
  /\ srp[c].pc = "rollback"
  /\ txn' = NoTxn
  /\ UNCHANGED <<db, tables, fkOn, walks, points, seqWalk, seqPoint>>
  /\ SrpReturn(c, "false", TRUE)
  /\ SrpFrame

\* the catch block: ROLLBACK, which throws when no transaction is open
SrpRollback(c) ==
  /\ srp[c].pc = "rollback"
  /\ IF txn.active
     THEN /\ Restore
          /\ UNCHANGED <<db, fkOn>>
          /\ SrpReturn(c, "false", TRUE)
     ELSE /\ UNCHANGED storeVars
          /\ SrpReturn(c, "throw", TRUE)
  /\ SrpFrame

UiSaveRoutePoints(batch) ==
  /\ nUi < MaxUiCalls
  /\ srp[UI].pc = "idle"
  /\ nUi' = nUi + 1
  /\ IF ~db \/ batch = <<>>
     THEN /\ last' = Returned("saveRoutePoints", batch, db, "false", Image)
          /\ UNCHANGED srp
     ELSE /\ srp' = [srp EXCEPT ![UI] = SrpCalled(batch)]
          /\ UNCHANGED last
  /\ UNCHANGED <<storeVars, del>>
  /\ UiFrame

\* ------------------------------------------ DatabaseService.deleteWalk ---
\* deleteWalk without its `!this.db` check
UiDeleteWalkUnchecked(id) ==
  /\ nUi < MaxUiCalls
  /\ del.pc = "idle"
  /\ nUi' = nUi + 1
  /\ del' = [pc |-> "points", id |-> id, pre |-> Image]
  /\ UNCHANGED last
  /\ UNCHANGED <<storeVars, srp>>
  /\ UiFrame

UiDeleteWalk(id) ==
  /\ nUi < MaxUiCalls
  /\ del.pc = "idle"
  /\ nUi' = nUi + 1
  /\ IF ~db
     THEN /\ last' = Returned("deleteWalk", id, db, "false", Image)
          /\ UNCHANGED del
     ELSE /\ del' = [pc |-> "points", id |-> id, pre |-> Image]
          /\ UNCHANGED last
  /\ UNCHANGED <<storeVars, srp>>
  /\ UiFrame

\* DELETE FROM route_points WHERE walkId = ?
DelPoints(r) ==
  /\ del.pc = "points"
  /\ DeletePointsStmt(del.id, r)
  /\ IF Eff(r, tables) = "ok"
     THEN /\ del' = [del EXCEPT !.pc = "walk"]
          /\ UNCHANGED last
     ELSE /\ del' = DelIdle
          /\ last' = Returned("deleteWalk", del.id, TRUE, "false", del.pre)
  /\ UNCHANGED <<srp, nUi>>
  /\ UiFrame

\* DELETE FROM walks WHERE id = ?
DelWalk(r) ==
  /\ del.pc = "walk"
  /\ DeleteWalkStmt(del.id, r)
  /\ del' = DelIdle
  /\ last' = Returned("deleteWalk", del.id, TRUE,
                      IF Eff(r, tables) = "ok" THEN "true" ELSE "false",
                      del.pre)
  /\ UNCHANGED <<srp, nUi>>
  /\ UiFrame

\* ------------------------------------------------------------ startWalk --
SessFrame == UNCHANGED <<initVars, uiVars>>

\* startWalk is called: it awaits getCurrentLocation
StartWalkCalled ==
  /\ start' = [start EXCEPT ![nStart + 1].pc = "fix"]
  /\ nStart' = nStart + 1
  /\ UNCHANGED <<storeVars, srp, sessVars, subVars, stop, nStop, envVars>>
  /\ SessFrame

startWalk == nStart < MaxStarts /\ StartWalkCalled

\* startWalk with setIsWalking(true) moved ahead of the location check
StartFixEager(k, location) ==
  /\ start[k].pc = "fix"
  /\ isWalking' = TRUE
  /\ IF IsNull(location)
     THEN /\ start' = [start EXCEPT ![k].pc = "done", ![k].fix = "failed",
                                    ![k].ret = Undefined]
          /\ UNCHANGED <<walkStartTime, startLocation, currentLocation,
                         routePoints, locationSubscription>>
     ELSE /\ start' = [start EXCEPT ![k].pc = "watch", ![k].fix = "ok"]
          /\ walkStartTime' = Some(now)
          /\ startLocation' = location
          /\ currentLocation' = location
          /\ routePoints' = <<Val(location)>>
          /\ UNCHANGED locationSubscription
  /\ UNCHANGED <<storeVars, srp, subVars, stop, nStart, nStop, envVars>>
  /\ SessFrame

\* startWalk that starts the route empty instead of seeding it with the fix
StartFixNoSeed(k, location) ==
  /\ start[k].pc = "fix"
  /\ IF IsNull(location)
     THEN /\ start' = [start EXCEPT ![k].pc = "done", ![k].fix = "failed",
                                    ![k].ret = Undefined]
          /\ UNCHANGED sessVars
     ELSE /\ start' = [start EXCEPT ![k].pc = "watch", ![k].fix = "ok"]
          /\ isWalking' = TRUE
          /\ walkStartTime' = Some(now)
          /\ startLocation' = location
          /\ currentLocation' = location
          /\ routePoints' = <<>>
          /\ UNCHANGED locationSubscription
  /\ UNCHANGED <<storeVars, srp, subVars, stop, nStart, nStop, envVars>>
  /\ SessFrame

\* getCurrentLocation settles with a fix or with null; with a fix the
\* five state setters run and startLocationTracking awaits watchPositionAsync
StartFix(k, location) ==
  /\ start[k].pc = "fix"
  /\ IF IsNull(location)
     THEN /\ start' = [start EXCEPT ![k].pc = "done", ![k].fix = "failed",
                                    ![k].ret = Undefined]
          /\ UNCHANGED sessVars
     ELSE /\ start' = [start EXCEPT ![k].pc = "watch", ![k].fix = "ok"]
          /\ isWalking' = TRUE
          /\ walkStartTime' = Some(now)
          /\ startLocation' = location
          /\ currentLocation' = location
          /\ routePoints' = <<Val(location)>>
          /\ UNCHANGED locationSubscription
  /\ UNCHANGED <<storeVars, srp, subVars, stop, nStart, nStop, envVars>>
  /\ SessFrame

\* watchPositionAsync settles: the subscription is stored, or the error is
\* logged by startLocationTracking
startLocationTracking(k, ok) ==
  /\ start[k].pc = "watch"
  /\ start' = [start EXCEPT ![k].pc = "done", ![k].ret = Undefined]
  /\ IF ok
     THEN /\ nSub' = nSub + 1
          /\ locationSubscription' = Some(nSub + 1)
          /\ removed' = [x \in SubIds |->
                IF <<x>> = EffectCleanup(Some(nSub + 1))
                THEN removed[x] + 1 ELSE removed[x]]
          /\ liveSubs' = (liveSubs \ Range(EffectCleanup(Some(nSub + 1))))
                           \cup {nSub + 1}
     ELSE UNCHANGED <<locationSubscription, subVars>>
  /\ UNCHANGED <<isWalking, walkStartTime, startLocation, currentLocation,
                 routePoints>>
  /\ UNCHANGED <<storeVars, srp, stop, nStart, nStop, envVars>>
  /\ SessFrame

\* a callback that stores the sample as the whole route
SampleReplaces(sub, p) ==
  /\ sub \in liveSubs
  /\ nSample < MaxSamples
  /\ nSample' = nSample + 1
  /\ currentLocation' = Some(p)
  /\ routePoints' = <<p>>
  /\ UNCHANGED <<isWalking, walkStartTime, startLocation,
                 locationSubscription>>
  /\ UNCHANGED <<storeVars, srp, subVars, callVars, now, nTick>>
  /\ SessFrame

\* a callback that puts the sample in front of the route
SamplePrepends(sub, p) ==
  /\ sub \in liveSubs
  /\ nSample < MaxSamples
  /\ nSample' = nSample + 1
  /\ currentLocation' = Some(p)
  /\ routePoints' = <<p>> \o routePoints
  /\ UNCHANGED <<isWalking, walkStartTime, startLocation,
                 locationSubscription>>
  /\ UNCHANGED <<storeVars, srp, subVars, callVars, now, nTick>>
  /\ SessFrame

\* the callback of watchPositionAsync is called with a sample
Sample(sub, p) ==
  /\ sub \in liveSubs
  /\ nSample < MaxSamples
  /\ nSample' = nSample + 1
  /\ currentLocation' = Some(p)
  /\ routePoints' = Append(routePoints, p)
  /\ UNCHANGED <<isWalking, walkStartTime, startLocation,
                 locationSubscription>>
  /\ UNCHANGED <<storeVars, srp, subVars, callVars, now, nTick>>
  /\ SessFrame

\* time passes
Tick ==
  /\ nTick < MaxTicks
  /\ nTick' = nTick + 1
  /\ \E ms \in TickSteps : now' = now + ms
  /\ UNCHANGED <<storeVars, srp, sessVars, subVars, callVars, nSample>>
  /\ SessFrame

\* ------------------------------------------------------------- stopWalk --
\* a stopWalk without the check of walkStartTime and startLocation
stopWalkUnguarded ==
  /\ nStop' = nStop + 1
  /\ stop' = [stop EXCEPT ![nStop + 1] =
        [StopIdle EXCEPT !.pc = "endfix",
                         !.walkStartTime =
                           IF IsNull(walkStartTime) THEN 0
                           ELSE Val(walkStartTime),
                         !.startLocation =
                           IF IsNull(startLocation) THEN Origin
                           ELSE Val(startLocation),
                         !.routePoints = routePoints,
                         !.sub = locationSubscription]]
  /\ stopLocationTracking(locationSubscription)
  /\ UNCHANGED <<isWalking, walkStartTime, startLocation, currentLocation,
                 routePoints, nSub>>
  /\ UNCHANGED <<storeVars, srp, start, nStart, envVars>>
  /\ SessFrame

\* stopWalk is called: it returns at once without start data; otherwise it
\* captures the rendered state, stops tracking and awaits the end fix
StopWalkCalled ==
  /\ nStop' = nStop + 1
  /\ IF IsNull(walkStartTime) \/ IsNull(startLocation)
     THEN /\ stop' = [stop EXCEPT ![nStop + 1].pc = "rejected",
                                  ![nStop + 1].ret = Undefined]
          /\ UNCHANGED <<locationSubscription, liveSubs, removed>>
     ELSE /\ stop' = [stop EXCEPT ![nStop + 1] =
                [StopIdle EXCEPT !.pc = "endfix",
                                 !.walkStartTime = Val(walkStartTime),
                                 !.startLocation = Val(startLocation),
                                 !.routePoints = routePoints,
                                 !.sub = locationSubscription]]
          /\ stopLocationTracking(locationSubscription)
  /\ UNCHANGED <<isWalking, walkStartTime, startLocation, currentLocation,
                 routePoints, nSub>>
  /\ UNCHANGED <<storeVars, srp, start, nStart, envVars>>
  /\ SessFrame

stopWalk == nStop < MaxStops /\ StopWalkCalled

\* a stopWalk that gives the walk up when the end fix fails
StopEndFixGivesUp(k, endLocation) ==
  /\ stop[k].pc = "endfix"
  /\ IF db /\ ~IsNull(endLocation)
     THEN /\ stop' = [stop EXCEPT ![k].pc = "saveWalk",
                                  ![k].endLocation = endLocation,
                                  ![k].walkData = Some(WalkData(stop[k], endLocation)),
                                  ![k].clean = TRUE]
          /\ UNCHANGED <<start, nStart, nStop, sessVars, subVars>>
     ELSE StopDone(k, Null, "none", FALSE)
  /\ UNCHANGED <<storeVars, srp, envVars>>
  /\ SessFrame

\* the end fix settles (null on failure); walkData is built and saveWalk is
\* called, which returns null at once when this.db is not set
StopEndFix(k, endLocation) ==
  /\ stop[k].pc = "endfix"
  /\ IF db
     THEN /\ stop' = [stop EXCEPT ![k].pc = "saveWalk",
                                  ![k].endLocation = endLocation,
                                  ![k].walkData =
                                     Some(WalkData(stop[k], endLocation)),
                                  ![k].clean = ~IsNull(endLocation)]
          /\ UNCHANGED <<start, nStart, nStop, sessVars, subVars>>
     ELSE StopDone(k, Null, "none", ~IsNull(endLocation))
  /\ UNCHANGED <<storeVars, srp, envVars>>
  /\ SessFrame

\* INSERT INTO walks settles: with an id, saveRoutePoints is called on the
\* mapped route points; with null the walk is given up
StopSaveWalk(k, r) ==
  /\ stop[k].pc = "saveWalk"
  /\ InsertWalkStmt(Val(stop[k].walkData), r)
  /\ LET walkId == saveWalk(Val(stop[k].walkData), TRUE, r)
     IN IF IsNull(walkId)
        THEN /\ StopDone(k, Null, "none", r = "ok")
             /\ UNCHANGED srp
        ELSE IF stop[k].routePoints = <<>>
        THEN /\ StopDone(k, walkId, "false", TRUE)
             /\ UNCHANGED srp
        ELSE /\ stop' = [stop EXCEPT ![k].pc = "saveRoute",
                                     ![k].walkId = walkId]
             /\ srp' = [srp EXCEPT ![k] =
                   [SrpCalled(RoutePointsData(stop[k], Val(walkId)))
                      EXCEPT !.clean = stop[k].clean]]
             /\ UNCHANGED <<start, nStart, nStop, sessVars, subVars>>
  /\ UNCHANGED envVars
  /\ SessFrame

\* ------------------------------------------------------ specifications ---
Init ==
  /\ db = FALSE
  /\ tables = FALSE
  /\ fkOn \in BOOLEAN
  /\ walks = <<>>
  /\ points = <<>>
  /\ seqWalk = 0
  /\ seqPoint = 0
  /\ txn = NoTxn
  /\ initPc = "idle"
  /\ nInit = 0
  /\ srp = [c \in Callers |-> SrpIdle]
  /\ del = DelIdle
  /\ last = NoResult
  /\ nUi = 0
  /\ isWalking = FALSE
  /\ walkStartTime = Null
  /\ startLocation = Null
  /\ currentLocation = Null
  /\ routePoints = <<>>
  /\ locationSubscription = Null
  /\ liveSubs = {}
  /\ removed = [x \in SubIds |-> 0]
  /\ nSub = 0
  /\ start = [k \in StartIds |-> StartIdle]
  /\ stop = [k \in StopIds |-> StopIdle]
  /\ nStart = 0
  /\ nStop = 0
  /\ nSample = 0
  /\ now = 0
  /\ nTick = 0

Fixes == { Some(c) : c \in Coords } \cup {Null}

\* the session with the store behind it
Next ==
  \/ init
  \/ \E ok \in BOOLEAN : InitOpen(ok)
  \/ \E ok \in BOOLEAN : createTables(ok)
  \/ startWalk
  \/ \E k \in StartIds, f \in Fixes : StartFix(k, f)
  \/ \E k \in StartIds, ok \in BOOLEAN : startLocationTracking(k, ok)
  \/ \E sub \in SubIds, p \in Coords : Sample(sub, p)
  \/ Tick
  \/ stopWalk
  \/ \E k \in StopIds, f \in Fixes : StopEndFix(k, f)
  \/ \E k \in StopIds, r \in Outcomes : StopSaveWalk(k, r)
  \/ \E k \in StopIds : SrpBegin(k)
  \/ \E k \in StopIds, r \in Outcomes : SrpInsert(k, r)
  \/ \E k \in StopIds, r \in Outcomes : SrpCommit(k, r)
  \/ \E k \in StopIds : SrpRollback(k)

Spec == Init /\ [][Next]_vars

ReadOutcomes == {"ok", "error"}

Limits == {1, 10}

\* the store driven by the presentation layer, one call at a time
SeqSaveWalk == NoStoreCall /\ \E w \in UiWalks, r \in Outcomes : UiSaveWalk(w, r)

SeqSaveRoutePoint ==
  NoStoreCall /\ \E p \in UiPoints, r \in Outcomes : UiSaveRoutePoint(p, r)

SeqSaveRoutePoints == NoStoreCall /\ \E b \in UiBatches : UiSaveRoutePoints(b)

SeqGetRoutePoints ==
  NoStoreCall /\ \E id \in WalkIds, r \in ReadOutcomes : UiGetRoutePoints(id, r)

SeqGetAllWalks == NoStoreCall /\ \E r \in ReadOutcomes : UiGetAllWalks(r)

SeqGetRecentWalks ==
  NoStoreCall /\ \E n \in Limits, r \in ReadOutcomes : UiGetRecentWalks(n, r)

SeqGetWalkById ==
  NoStoreCall /\ \E id \in WalkIds, r \in ReadOutcomes : UiGetWalkById(id, r)

SeqGetWalkStats == NoStoreCall /\ \E r \in ReadOutcomes : UiGetWalkStats(r)

SeqDeleteWalk == NoStoreCall /\ \E id \in WalkIds : UiDeleteWalk(id)

NextStore ==
  \/ init
  \/ \E ok \in BOOLEAN : InitOpen(ok)
  \/ \E ok \in BOOLEAN : createTables(ok)
  \/ SeqSaveWalk
  \/ SeqSaveRoutePoint
  \/ SeqSaveRoutePoints
  \/ SeqGetRoutePoints
  \/ SeqGetAllWalks
  \/ SeqGetRecentWalks
  \/ SeqGetWalkById
  \/ SeqGetWalkStats
  \/ SeqDeleteWalk
  \/ SrpBegin(UI)
  \/ \E r \in Outcomes : SrpInsert(UI, r)
  \/ \E r \in Outcomes : SrpCommit(UI, r)
  \/ SrpRollback(UI)
  \/ \E r \in Outcomes : DelPoints(r)
  \/ \E r \in Outcomes : DelWalk(r)

StoreSpec == Init /\ [][NextStore]_vars

\* the store with calls of the presentation layer issued while a
\* saveRoutePoints or a deleteWalk is awaiting one of its statements
ConcSaveWalk == \E w \in UiWalks, r \in Outcomes : UiSaveWalk(w, r)

ConcGetRoutePoints ==
  \E id \in WalkIds, r \in ReadOutcomes : UiGetRoutePoints(id, r)

ConcSaveRoutePoints == \E b \in UiBatches : UiSaveRoutePoints(b)

ConcDeleteWalk == \E id \in WalkIds : UiDeleteWalk(id)

NextConc ==
  \/ init
  \/ \E ok \in BOOLEAN : InitOpen(ok)
  \/ \E ok \in BOOLEAN : createTables(ok)
  \/ ConcSaveWalk
  \/ ConcGetRoutePoints
  \/ ConcSaveRoutePoints
  \/ ConcDeleteWalk
  \/ SrpBegin(UI)
  \/ \E r \in Outcomes : SrpInsert(UI, r)
  \/ \E r \in Outcomes : SrpCommit(UI, r)
  \/ SrpRollback(UI)
  \/ \E r \in Outcomes : DelPoints(r)
  \/ \E r \in Outcomes : DelWalk(r)

ConcSpec == Init /\ [][NextConc]_vars

\* the file dogwalks.db outlives the process: the walks and route points a
\* launch of the application can find in it, as earlier launches stored them
StoredWalks ==
  UNION { [1..n -> UiWalks] : n \in 0..2 }

StoredPoints ==
  UNION { [1..n -> { p \in UiPoints : ~IsNull(p.latitude) }] : n \in 0..2 }

\* a launch on a file that holds rows: the service has no handle yet
InitStored ==
  /\ db = FALSE
  /\ tables = TRUE
  /\ fkOn \in BOOLEAN
  /\ \E ws \in StoredWalks, ps \in StoredPoints :
       /\ seqWalk = Len(ws)
       /\ seqPoint = Len(ps)
       /\ walks = [i \in 1..Len(ws) |-> [WalkRow(ws[i]) EXCEPT !.id = i]]
       /\ points = [i \in 1..Len(ps) |-> PointRow(ps[i], i)]
       /\ fkOn => \A i \in 1..Len(ps) : ps[i].walkId <= Len(ws)
  /\ txn = NoTxn
  /\ initPc = "idle"
  /\ nInit = 0
  /\ srp = [c \in Callers |-> SrpIdle]
  /\ del = DelIdle
  /\ last = NoResult
  /\ nUi = 0
  /\ isWalking = FALSE
  /\ walkStartTime = Null
  /\ startLocation = Null
  /\ currentLocation = Null
  /\ routePoints = <<>>
  /\ locationSubscription = Null
  /\ liveSubs = {}
  /\ removed = [x \in SubIds |-> 0]
  /\ nSub = 0
  /\ start = [k \in StartIds |-> StartIdle]
  /\ stop = [k \in StopIds |-> StopIdle]
  /\ nStart = 0
  /\ nStop = 0
  /\ nSample = 0
  /\ now = 0
  /\ nTick = 0

\* init and the read operations on such a file
NextInit ==
  \/ init
  \/ \E ok \in BOOLEAN : InitOpen(ok)
  \/ \E ok \in BOOLEAN : createTables(ok)
  \/ SeqGetRoutePoints
  \/ SeqGetAllWalks
  \/ SeqGetRecentWalks
  \/ SeqGetWalkById
  \/ SeqGetWalkStats

InitSpec == InitStored /\ [][NextInit]_vars

\* the session when the button is pressed again while the call of the
\* previous press is in flight, with every collaborator call succeeding
PressStartAgain == nStart < MaxStarts + 1 /\ StartWalkCalled

PressStopAgain == nStop < MaxStops + 1 /\ StopWalkCalled

NextPress ==
  \/ init
  \/ InitOpen(TRUE)
  \/ createTables(TRUE)
  \/ PressStartAgain
  \/ \E k \in StartIds, c \in Coords : StartFix(k, Some(c))
  \/ \E k \in StartIds : startLocationTracking(k, TRUE)
  \/ \E sub \in SubIds, p \in Coords : Sample(sub, p)
  \/ Tick
  \/ PressStopAgain
  \/ \E k \in StopIds : StopEndFix(k, Some(Origin))
  \/ \E k \in StopIds : StopSaveWalk(k, "ok")
  \/ \E k \in StopIds : SrpBegin(k)
  \/ \E k \in StopIds : SrpInsert(k, "ok")
  \/ \E k \in StopIds : SrpCommit(k, "ok")
  \/ \E k \in StopIds : SrpRollback(k)

PressSpec == Init /\ [][NextPress]_vars

\* calculateRouteDistance as a function of its argument: the routes of up
\* to MaxRoute points over RouteCoords
Routes == UNION { [1..n -> RouteCoords] : n \in 0..MaxRoute }

DistInit ==
  /\ db = FALSE
  /\ tables = FALSE
  /\ fkOn = FALSE
  /\ walks = <<>>
  /\ points = <<>>
  /\ seqWalk = 0
  /\ seqPoint = 0
  /\ txn = NoTxn
  /\ initPc = "idle"
  /\ nInit = 0
  /\ srp = [c \in Callers |-> SrpIdle]
  /\ del = DelIdle
  /\ last = NoResult
  /\ nUi = 0
  /\ isWalking = FALSE
  /\ walkStartTime = Null
  /\ startLocation = Null
  /\ currentLocation = Null
  /\ routePoints \in Routes
  /\ locationSubscription = Null
  /\ liveSubs = {}
  /\ removed = [x \in SubIds |-> 0]
  /\ nSub = 0
  /\ start = [k \in StartIds |-> StartIdle]
  /\ stop = [k \in StopIds |-> StopIdle]
  /\ nStart = 0
  /\ nStop = 0
  /\ nSample = 0
  /\ now = 0
  /\ nTick = 0

\* calculateRouteDistance(routePoints) is evaluated; `last` holds the
\* argument and the value returned
Measure ==
  /\ last.op = "none"
  /\ last' = Returned("calculateRouteDistance", routePoints, TRUE,
                      calculateRouteDistance(routePoints), EmptyImage)
  /\ UNCHANGED <<storeVars, initVars, srp, del, nUi, sessVars, subVars,
                 callVars, envVars>>

NextDist == Measure

DistSpec == DistInit /\ [][NextDist]_vars

\* a call awaited by a stopWalk settles: the end fix, saveWalk or a
\* statement of saveRoutePoints returns or throws
StopCallSettles ==
  \E k \in StopIds :
    \/ \E f \in Fixes : StopEndFix(k, f)
    \/ \E r \in Outcomes : StopSaveWalk(k, r)
    \/ SrpBegin(k)
    \/ \E r \in Outcomes : SrpInsert(k, r)
    \/ \E r \in Outcomes : SrpCommit(k, r)
    \/ SrpRollback(k)

\* while a stopWalk awaits a call, some awaited call eventually settles
StopCallsSettle == WF_vars(StopCallSettles)

\* a walk is being recorded: init has settled (the database opened and its
\* tables made, opened only, or not opened), one startWalk has run to its end
\* with a fix, and watchPositionAsync gave a subscription or failed
WalkingInit ==
  /\ db \in BOOLEAN
  /\ tables \in BOOLEAN
  /\ tables => db
  /\ fkOn \in BOOLEAN
  /\ walks = <<>>
  /\ points = <<>>
  /\ seqWalk = 0
  /\ seqPoint = 0
  /\ txn = NoTxn
  /\ initPc = "done"
  /\ nInit = 1
  /\ srp = [c \in Callers |-> SrpIdle]
  /\ del = DelIdle
  /\ last = NoResult
  /\ nUi = 0
  /\ isWalking = TRUE
  /\ walkStartTime = Some(0)
  /\ \E c \in Coords :
       /\ startLocation = Some(c)
       /\ currentLocation = Some(c)
       /\ routePoints = <<c>>
  /\ \/ locationSubscription = Some(1) /\ liveSubs = {1} /\ nSub = 1
     \/ locationSubscription = Null /\ liveSubs = {} /\ nSub = 0
  /\ removed = [x \in SubIds |-> 0]
  /\ start = [k \in StartIds |->
       IF k = 1 THEN [pc |-> "done", fix |-> "ok", ret |-> Undefined]
       ELSE StartIdle]
  /\ stop = [k \in StopIds |-> StopIdle]
  /\ nStart = 1
  /\ nStop = 0
  /\ nSample = 0
  /\ now = 0
  /\ nTick = 0

\* the walk is stopped while samples arrive
NextStop ==
  \/ \E sub \in SubIds, p \in Coords : Sample(sub, p)
  \/ stopWalk
  \/ \E k \in StopIds, f \in Fixes : StopEndFix(k, f)
  \/ \E k \in StopIds, r \in Outcomes : StopSaveWalk(k, r)
  \/ \E k \in StopIds : SrpBegin(k)
  \/ \E k \in StopIds, r \in Outcomes : SrpInsert(k, r)
  \/ \E k \in StopIds, r \in Outcomes : SrpCommit(k, r)
  \/ \E k \in StopIds : SrpRollback(k)

FairSpec == WalkingInit /\ [][NextStop]_vars /\ StopCallsSettle

\* ------------------------------------------------------------- claims ---
StopRunning(k) == stop[k].pc \in {"endfix", "saveWalk", "saveRoute"}

\* C1: whenever a stopWalk call that passed its start-data check runs to its
\* end - whatever the end fix, saveWalk and saveRoutePoints did, a thrown
\* exception included - the session is left with isWalking = false,
\* walkStartTime = null, startLocation = null and routePoints = [].
C1_StopAlwaysResets ==
  [][\A k \in StopIds :
       (StopRunning(k) /\ stop'[k].pc = "done")
       => (/\ isWalking' = FALSE
           /\ walkStartTime' = Null
           /\ startLocation' = Null
           /\ routePoints' = <<>>)]_vars

C1_Witness ==
  \E k \in StopIds :
    /\ stop[k].pc = "done"
    /\ stop[k].routeSaved = "throw"
    /\ ~isWalking
    /\ routePoints = <<>>

\* C2: a startWalk call whose initial fix fails ends without any transition:
\* no session field changes (from Idle: isWalking stays false, walkStartTime
\* and startLocation stay null, routePoints stays empty) and no location
\* subscription is created.
C2_FailedFixNoTransition ==
  [][\A k \in StartIds :
       (start[k].pc = "fix" /\ start'[k].pc = "done")
       => UNCHANGED <<sessVars, subVars>>]_vars

C2_Witness ==
  /\ \E k \in StartIds : start[k].pc = "done"
  /\ nStop = 0
  /\ ~isWalking
  /\ IsNull(walkStartTime)
  /\ IsNull(startLocation)
  /\ routePoints = <<>>
  /\ nSub = 0

\* C3: the step in which startWalk receives its fix commits isWalking = true,
\* walkStartTime = now, startLocation = currentLocation = fix and
\* routePoints = [fix]; and while the session stays Active these fields do
\* not change in any step other than the delivery of a location sample (or
\* the commit of another startWalk call).
C3_StartCommitsSeed ==
  [][/\ \A k \in StartIds :
          (start[k].pc = "fix" /\ start'[k].pc = "watch")
          => (/\ isWalking'
              /\ walkStartTime' = Some(now)
              /\ ~IsNull(startLocation')
              /\ currentLocation' = startLocation'
              /\ routePoints' = <<Val(startLocation')>>)
     /\ (/\ isWalking /\ isWalking'
         /\ nSample' = nSample
         /\ \A k \in StartIds : start'[k].pc = "watch" => start[k].pc = "watch")
        => UNCHANGED <<walkStartTime, startLocation, currentLocation,
                       routePoints>>]_vars

C3_Witness ==
  /\ \E k \in StartIds : start[k].pc = "done"
  /\ isWalking
  /\ nSample = 0
  /\ now > 0
  /\ ~IsNull(locationSubscription)
  /\ walkStartTime = Some(0)
  /\ routePoints = <<Val(startLocation)>>
  /\ currentLocation = startLocation

\* the rows a batch adds to route_points when every insert succeeds
BatchRows(batch, seq) == [i \in 1..Len(batch) |-> PointRow(batch[i], seq + i)]

\* C4: saveRoutePoints is all-or-nothing: when a call on a non-empty batch
\* has returned, route_points holds the rows it held before the call followed
\* by one row per point of the batch (result true), or exactly the rows it
\* held before the call (any other result); never part of the batch.
C4_BatchAllOrNothing ==
  (/\ last.op = "saveRoutePoints"
   /\ ~last.uninit
   /\ last.arg # <<>>
   /\ NoStoreCall)
  => points = IF last.res = "true"
              THEN last.pre.points \o BatchRows(last.arg, last.pre.seqPoint)
              ELSE last.pre.points

C4_Witness ==
  /\ last.op = "saveRoutePoints"
  /\ last.res = "false"
  /\ last.pre.tables
  /\ ~fkOn
  /\ Len(last.arg) = 2
  /\ ~IsNull(last.arg[1].latitude)
  /\ IsNull(last.arg[2].latitude)
  /\ NoStoreCall
  /\ points = last.pre.points

\* C5: when deleteWalk(id) has returned true, the walk row id and every route
\* point with walkId = id are gone (getWalkById(id) finds nothing,
\* getRoutePoints(id) is empty) and the rows of every other id are as they
\* were before the call.
C5_DeleteRemovesWalkAndPoints ==
  (/\ last.op = "deleteWalk"
   /\ last.res = "true"
   /\ NoStoreCall)
  => /\ walks = SelectSeq(last.pre.walks, LAMBDA row : row.id # last.arg)
     /\ points = SelectSeq(last.pre.points, LAMBDA row : row.walkId # last.arg)
     /\ getWalkById(last.arg, TRUE, "ok") = Null
     /\ getRoutePoints(last.arg, TRUE, "ok") = <<>>

C5_Witness ==
  /\ last.op = "deleteWalk"
  /\ last.res = "true"
  /\ NoStoreCall
  /\ \E i \in 1..Len(last.pre.walks) : last.pre.walks[i].id = last.arg
  /\ \E i \in 1..Len(last.pre.points) : last.pre.points[i].walkId = last.arg
  /\ \E i \in 1..Len(points) : points[i].walkId # last.arg

\* C6: getWalkStats on an initialised store that holds no walks returns the
\* numbers 0, 0, 0, 0.
C6_EmptyStatsAreZero ==
  (/\ last.op = "getWalkStats"
   /\ ~last.uninit
   /\ last.pre.tables
   /\ last.pre.walks = <<>>)
  => last.res = ZeroStats

\* C7: every stored route point has the walkId of a walk row that exists.
C7_NoOrphanRoutePoint ==
  \A i \in 1..Len(points) : WalkExists(points[i].walkId)

\* C8: when deleteWalk(id) has returned false, both tables are as they were
\* before the call (stated for an id whose walk row existed at the call, so
\* that route points removed while the walk row remains are what refutes it).
C8_FailedDeleteLeavesTables ==
  (/\ last.op = "deleteWalk"
   /\ last.res = "false"
   /\ \E i \in 1..Len(last.pre.walks) : last.pre.walks[i].id = last.arg
   /\ NoStoreCall)
  => (walks = last.pre.walks /\ points = last.pre.points)

\* what each operation returns when this.db is not set
Fallback(op) ==
  CASE op \in {"saveWalk", "saveRoutePoint", "getWalkById"} -> Null
    [] op \in {"saveRoutePoints", "deleteWalk"} -> "false"
    [] op \in {"getRoutePoints", "getAllWalks", "getRecentWalks"} -> <<>>
    [] op = "getWalkStats" -> ZeroStats

\* what a read operation finds in the rows the file holds
ReadResult(op, arg) ==
  CASE op = "getRoutePoints" -> SelectRoutePoints(arg)
    [] op = "getAllWalks" -> SelectAllWalks
    [] op = "getRecentWalks" -> SelectRecentWalks(arg)
    [] op = "getWalkById" -> SelectWalkById(arg)
    [] op = "getWalkStats" -> StatsRow

ReadOps == {"getRoutePoints", "getAllWalks", "getRecentWalks", "getWalkById",
            "getWalkStats"}

C10_StoppedWalkIsStored ==
  \A k \in StopIds :
    (stop[k].pc = "done" /\ stop[k].clean)
    => /\ ~IsNull(stop[k].walkId)
       /\ stop[k].routeSaved = "true"
       /\ WalkExists(Val(stop[k].walkId))
       /\ PointsOf(Val(stop[k].walkId)) # <<>>


\* a startWalk call receives its fix in this step
StartCommits == \E k \in StartIds : start[k].pc = "fix" /\ start'[k].pc = "watch"

C18_ActiveRouteStartsAtStart ==
  isWalking => (routePoints # <<>> /\ Some(routePoints[1]) = startLocation)

C18_Witness ==
  /\ isWalking
  /\ nSample = 1
  /\ Len(routePoints) = 2
  /\ Some(routePoints[1]) = startLocation
  /\ routePoints[2] # Val(startLocation)
  /\ \E k \in StartIds : start[k].pc = "done"

\* what a route point row says, without its row id
PointContent(row) ==
  [walkId |-> row.walkId, latitude |-> row.latitude,
   longitude |-> row.longitude, timestamp |-> row.timestamp]

\* the stopWalk call k returns from a saveRoutePoints that succeeded
StopSavedAll(k) ==
  /\ stop[k].pc = "saveRoute"
  /\ stop'[k].pc = "done"
  /\ stop'[k].routeSaved = "true"

\* C12: after a stopWalk whose saveWalk and saveRoutePoints both succeed,
\* getRoutePoints(newWalkId) returns one route point per element of the
\* routePoints the session had when stopWalk was invoked, in the same order,
\* the i-th (from 0) with timestamp startedAt + i * 5 seconds.
C12_StoredRouteMatchesSession ==
  [][\A k \in StopIds :
       StopSavedAll(k) =>
         LET id == Val(stop[k].walkId)
             route == stop[k].routePoints
             got == getRoutePoints(id, db, "ok")'
         IN /\ Len(got) = Len(route)
            /\ \A i \in 1..Len(route) :
                 PointContent(got[i]) =
                   [walkId |-> id,
                    latitude |-> route[i].latitude,
                    longitude |-> route[i].longitude,
                    timestamp |->
                      toISOString(stop[k].walkStartTime
                                  + (i - 1) * SampleIntervalMs)]]_vars

C12_Witness ==
  \E k \in StopIds :
    /\ stop[k].pc = "done"
    /\ stop[k].routeSaved = "true"
    /\ ~IsNull(stop[k].walkId)
    /\ LET got == getRoutePoints(Val(stop[k].walkId), db, "ok")
       IN /\ Len(got) = 2
          /\ got[1].latitude # got[2].latitude
          /\ got[2].timestamp[1] = got[1].timestamp[1] + 5

\* the instant, in milliseconds, an ISO-8601 text denotes
FromISO(t) == t[1] * 1000 + t[2]

\* the saveWalk of the stopWalk call k returns the id of a new row
StopStoredWalk(k) ==
  /\ stop[k].pc = "saveWalk"
  /\ ~IsNull(stop'[k].walkId)

\* C13: the Walk row stored by stopWalk has duration = the whole seconds
\* between startedAt and endTime and distance = routeLength of the route at
\* stop, for every route; for a route of one point the stored distance is 0,
\* not absent.
C13_StoredDurationAndDistance ==
  [][\A k \in StopIds :
       StopStoredWalk(k) =>
         LET row == walks'[Len(walks')]
         IN /\ row.id = Val(stop'[k].walkId)
            /\ row.duration >= 0
            /\ row.duration =
                 (FromISO(row.endTime) - stop[k].walkStartTime) \div 1000
            /\ row.distance =
                 Some(Millimetres(
                        calculateRouteDistance(stop[k].routePoints)))]_vars

\* C14: if the end-position fix fails during stopWalk, saveWalk is still
\* called, with the startTime, duration, start coordinates and distance it
\* would get with a fix and with endLatitude and endLongitude absent, and
\* once the walk has its id saveRoutePoints is called with one point per
\* element of the route.
C14_FailedEndFixStillSaves ==
  [][\A k \in StopIds :
       /\ (stop[k].pc = "endfix" /\ stop'[k] # stop[k] /\ db
           /\ IsNull(stop'[k].endLocation))
          => /\ stop'[k].pc = "saveWalk"
             /\ ~IsNull(stop'[k].walkData)
             /\ LET w == Val(stop'[k].walkData)
                IN /\ w.endLatitude = Null
                   /\ w.endLongitude = Null
                   /\ w.startTime = toISOString(stop[k].walkStartTime)
                   /\ w.duration = (now - stop[k].walkStartTime) \div 1000
                   /\ w.startLatitude = stop[k].startLocation.latitude
                   /\ w.startLongitude = stop[k].startLocation.longitude
                   /\ w.distance =
                        Some(Millimetres(
                               calculateRouteDistance(stop[k].routePoints)))
                   /\ \A p \in Coords :
                        w = [WalkData(stop[k], Some(p))
                               EXCEPT !.endLatitude = Null,
                                      !.endLongitude = Null]
       /\ (StopStoredWalk(k) /\ IsNull(stop[k].endLocation)
           /\ stop[k].routePoints # <<>>)
          => /\ stop'[k].pc = "saveRoute"
             /\ srp'[k].pc = "begin"
             /\ Len(srp'[k].batch) = Len(stop[k].routePoints)]_vars

C14_Witness ==
  \E k \in StopIds :
    /\ stop[k].pc = "saveRoute"
    /\ IsNull(stop[k].endLocation)
    /\ srp[k].pc = "commit"
    /\ WalkExists(Val(stop[k].walkId))
    /\ Len(PointsOf(Val(stop[k].walkId))) = Len(stop[k].routePoints)

\* the startWalk call k has returned without a start fix
StartFailed(k) == start[k].pc = "done" /\ start[k].fix = "failed"

\* the stopWalk call k has returned and its walk is not (wholly) stored
StopLost(k) ==
  /\ stop[k].pc = "done"
  /\ (IsNull(stop[k].walkId) \/ stop[k].routeSaved # "true")

\* the stopWalk call k has returned and its walk and route are stored
StopSaved(k) ==
  /\ stop[k].pc = "done"
  /\ ~IsNull(stop[k].walkId)
  /\ stop[k].routeSaved = "true"

C16_StopWhenNotActiveIsNoOp ==
  [][/\ (nStop' # nStop /\ ~isWalking)
        => /\ UNCHANGED <<sessVars, subVars, storeVars, srp>>
           /\ stop'[nStop'].pc = "rejected"
     /\ \A k \in StopIds :
          stop[k].pc = "rejected" => stop'[k] = stop[k]]_vars

C16_Witness ==
  /\ ~isWalking
  /\ routePoints = <<>>
  /\ \E k \in StopIds : stop[k].pc = "rejected"
  /\ \E k \in StartIds : start[k].pc = "fix"

\* C17: for every location subscription created by startWalk, remove() is
\* called at most once: not a second time by the cleanup of the
\* [locationSubscription] effect or by the catch block of stopWalk.
C17_RemoveCalledOnce == \A s \in SubIds : removed[s] <= 1

\* C19: in every reachable state walkStartTime and startLocation are both set
\* or both unset, and they are set exactly when isWalking.
C19_StartDataSetIffActive ==
  /\ IsNull(walkStartTime) <=> IsNull(startLocation)
  /\ isWalking <=> ~IsNull(walkStartTime)

C19_Witness ==
  /\ ~isWalking
  /\ IsNull(walkStartTime)
  /\ IsNull(startLocation)
  /\ ~IsNull(currentLocation)
  /\ \E k \in StartIds : start[k].fix = "ok"
  /\ \E k \in StopIds : stop[k].pc = "done"

\* C20: in every reachable state in which the session is Idle, routePoints
\* is empty: a sample delivered while the session is not Active does not
\* modify routePoints.
C20_IdleRouteIsEmpty == ~isWalking => routePoints = <<>>

\* the saveRoutePoints call of caller c is between its BEGIN and its COMMIT
\* or ROLLBACK
InTransaction(c) ==
  srp[c].pc \in {"insert", "commit", "rollback"} /\ txn.active

\* how many rows of `res` were inserted by the call of c that is in flight
BatchRowsSeen(res, c) ==
  Cardinality({ i \in DOMAIN res : res[i].id > srp[c].pre.seqPoint })

\* how many points of the batch of c belong to walk id
BatchPointsOf(c, id) ==
  Cardinality({ i \in DOMAIN srp[c].batch : srp[c].batch[i].walkId = id })

\* C21: an operation that runs between the BEGIN and the COMMIT/ROLLBACK of a
\* saveRoutePoints call does not observe some but not all points of the
\* batch (getRoutePoints sees all of the batch's points of its walk or none),
\* and does not have its own effect rolled back with the batch (the ROLLBACK
\* of saveRoutePoints restores no walk row and removes none).
C21_StoreCallsAreIsolated ==
  [][/\ (/\ InTransaction(UI)
         /\ nUi' = nUi + 1
         /\ last'.op = "getRoutePoints"
         /\ ~last'.uninit)
        => BatchRowsSeen(last'.res, UI) \in {0, BatchPointsOf(UI, last'.arg)}
     /\ (srp[UI].pc = "rollback" /\ srp'[UI].pc = "idle")
        => walks' = walks]_vars

\* the sum of f[i] over the first n indices of the sequence f of numbers
RECURSIVE Total(_, _)
Total(f, n) == IF n = 0 THEN 0 ELSE Total(f, n - 1) + f[n]

\* a getWalkStats call returns in this step, on a store that holds walks
StatsReturned ==
  /\ nUi' = nUi + 1
  /\ last'.op = "getWalkStats"
  /\ ~last'.uninit
  /\ tables
  /\ walks # <<>>

\* C22: on a store holding at least one walk, a getWalkStats whose query
\* succeeds returns totalWalks = the number of walk rows, totalDuration = the
\* sum of their durations, totalDistance = the sum of their distances with an
\* absent distance counted as 0, and averageDuration = totalDuration /
\* totalWalks (a failed query returns the all-zero record).
C22_StatsMatchRows ==
  [][StatsReturned =>
       LET n == Len(walks)
           durations == [i \in 1..n |-> walks[i].duration]
           distances == [i \in 1..n |->
                           IF walks[i].distance = Null THEN 0
                           ELSE walks[i].distance[1]]
           res == getWalkStats(db, "ok")
       IN /\ last'.res \in {res, ZeroStats}
          /\ res.totalWalks = Some(n)
          /\ res.totalDuration = Some(Total(durations, n))
          /\ res.totalDistance = Some(Total(distances, n))
          /\ ~IsNull(res.averageDuration)
          /\ Val(res.averageDuration)[1] * n =
               Total(durations, n) * Val(res.averageDuration)[2]]_vars

C22_Witness ==
  /\ last.op = "getWalkStats"
  /\ ~last.uninit
  /\ Len(walks) = 2
  /\ \E i \in 1..2 : IsNull(walks[i].distance)
  /\ walks[1].duration # walks[2].duration
  /\ last.res.totalWalks = Some(2)
  /\ last.res.totalDuration = Some(4)
  /\ last.res.totalDistance = Some(111195)
  /\ last.res.averageDuration = Some(<<2, 1>>)

\* a step of init: the call, openDatabaseAsync settling, or the CREATE TABLE
\* script settling
InitStep == initPc' # initPc

\* C23: init on a store that already holds walks and route points leaves
\* every stored row unchanged and the store usable: a handle and tables that
\* were there remain, an init that succeeds leaves both in place, and every
\* query gives the same result after the step as before it.
C23_InitKeepsRows ==
  [][InitStep =>
       /\ UNCHANGED <<walks, points, seqWalk, seqPoint>>
       /\ db => db'
       /\ tables => tables'
       /\ (initPc = "creating" /\ tables') => db'
       /\ SelectAllWalks' = SelectAllWalks
       /\ StatsRow' = StatsRow
       /\ \A id \in WalkIds :
            /\ SelectRoutePoints(id)' = SelectRoutePoints(id)
            /\ SelectWalkById(id)' = SelectWalkById(id)
       /\ \A n \in Limits : SelectRecentWalks(n)' = SelectRecentWalks(n)]_vars

C23_Witness ==
  /\ initPc = "done"
  /\ nInit = 1
  /\ db
  /\ tables
  /\ Len(walks) = 2
  /\ Len(points) = 2
  /\ last.op = "getAllWalks"
  /\ ~last.uninit
  /\ Len(last.res) = 2
  /\ last.res = SelectAllWalks

\* C24: no store operation throws to its caller: every failure, including a
\* failure of the BEGIN, COMMIT or ROLLBACK statement of saveRoutePoints, is
\* returned as a result value.
C24_NoStoreCallThrows ==
  /\ last.op = "saveRoutePoints" => last.res \in {"true", "false"}
  /\ \A k \in StopIds : stop[k].routeSaved # "throw"

\* x + y + ... over the first n doubles of f, from left to right
RECURSIVE FloatTotal(_, _)
FloatTotal(f, n) ==
  IF n = 0 THEN ZeroMetres ELSE FloatAdd(FloatTotal(f, n - 1), f[n])

\* the legs of a route: the distances of its consecutive pairs
Legs(pts) ==
  [i \in 1..(Len(pts) - 1) |-> calculateDistance(pts[i], pts[i + 1])]

Measured == last.op = "calculateRouteDistance"

\* C25: calculateRouteDistance returns 0 for the empty route and for every
\* route of one point, and for a route of n >= 2 points the sum of
\* calculateDistance over its n - 1 consecutive pairs, each counted once.
C25_RouteLengthIsSumOfLegs ==
  Measured =>
    IF Len(last.arg) < 2
    THEN last.res = ZeroMetres
    ELSE /\ Len(Legs(last.arg)) = Len(last.arg) - 1
         /\ last.res = FloatTotal(Legs(last.arg), Len(last.arg) - 1)

C25_Witness ==
  /\ Measured
  /\ Len(last.arg) = 4
  /\ last.arg[1] # last.arg[2]
  /\ last.arg[2] # last.arg[3]
  /\ last.arg[3] # last.arg[4]
  /\ calculateDistance(last.arg[1], last.arg[2])
       # calculateDistance(last.arg[2], last.arg[3])
  /\ last.res = <<97187644, 12786044>>

Reverse(s) == [i \in 1..Len(s) |-> s[Len(s) + 1 - i]]

\* x and y differ by at most tol units of 2^-36 metres
DiffWithin(x, y, tol) ==
  /\ x[1] - y[1] \in {-1, 0, 1}
  /\ LET d == (x[1] - y[1]) * Base + (x[2] - y[2])
     IN d <= tol /\ -d <= tol

AllSame(pts) == \A i \in DOMAIN pts : pts[i] = pts[1]

NonNegative(x) == x[1] >= 0 /\ x[2] >= 0

\* C26 as stated: for every sequence of at least 2 coordinates the route
\* length is non-negative, equal for the sequence and its full reversal, and
\* 0 when all points are identical.
C26_RouteLengthSymmetric ==
  (Measured /\ Len(last.arg) >= 2) =>
    /\ NonNegative(last.res)
    /\ last.res = calculateRouteDistance(Reverse(last.arg))
    /\ AllSame(last.arg) => last.res = ZeroMetres

\* C26 amended: the route length is non-negative and 0 when all points are
\* identical; each leg has the same length in both directions; and the
\* lengths of a sequence of n points and of its reversal agree up to the
\* rounding of the n - 2 additions that can round: they differ by at most
\* n - 2 units in the last place of the larger one.
C26_RouteLengthSymmetricRounded ==
  (Measured /\ Len(last.arg) >= 2) =>
    LET rev == calculateRouteDistance(Reverse(last.arg))
        u == IF Ulp(rev[1]) > Ulp(last.res[1]) THEN Ulp(rev[1])
             ELSE Ulp(last.res[1])
    IN /\ NonNegative(last.res)
       /\ AllSame(last.arg) => last.res = ZeroMetres
       /\ \A i \in 1..(Len(last.arg) - 1) :
            calculateDistance(last.arg[i], last.arg[i + 1])
              = calculateDistance(last.arg[i + 1], last.arg[i])
       /\ DiffWithin(last.res, rev, (Len(last.arg) - 2) * u)
       /\ Len(last.arg) <= 3 => last.res = rev

C26_Witness ==
  /\ Measured
  /\ Len(last.arg) = 4
  /\ last.res # calculateRouteDistance(Reverse(last.arg))
  /\ DiffWithin(last.res, calculateRouteDistance(Reverse(last.arg)), 4)

\* no startWalk or stopWalk call is awaiting anything
NoCallInFlight ==
  /\ \A k \in StartIds : start[k].pc \in {"idle", "done"}
  /\ \A k \in StopIds : stop[k].pc \in {"idle", "rejected", "done"}

\* C27: whenever the session is Idle and no startWalk or stopWalk call is in
\* flight, no location subscription is live.
C27_NoSubscriptionWhenIdle ==
  (~isWalking /\ NoCallInFlight) => liveSubs = {}

\* the walks that were started: the startWalk calls that got their fix
StartedWalks == { k \in StartIds : start[k].fix = "ok" }

\* C28: each started walk produces at most one Walk row: a stopWalk invoked
\* while an earlier stopWalk of the same walk is still awaiting its end fix
\* or the store writes no second row.
C28_OneRowPerWalk == Len(walks) <= Cardinality(StartedWalks)

\* C29: whenever stopWalk calls that have passed the check of the start data
\* are running, eventually all of them have ended and the session is Idle,
\* provided the calls they await settle.
C29_StopLeadsToIdle ==
  (\E k \in StopIds : StopRunning(k))
    ~> (/\ \A k \in StopIds : ~StopRunning(k)
        /\ ~isWalking
        /\ IsNull(walkStartTime)
        /\ IsNull(startLocation)
        /\ routePoints = <<>>)

C29_Witness ==
  \E k \in StopIds :
    /\ stop[k].pc = "done"
    /\ stop[k].routeSaved = "throw"
    /\ ~IsNull(stop[k].walkId)
    /\ ~isWalking
    /\ routePoints = <<>>
    /\ nSample = 1
    /\ walks # <<>>


\* a startWalk commits its fix while a walk is being recorded
SecondStartCommits(k) ==
  /\ start[k].pc = "fix"
  /\ start'[k].pc = "watch"
  /\ isWalking

\* C30: at most one location subscription is live at every moment, and a
\* startWalk that gets its fix while a walk is being recorded leaves the
\* start time and the route of that walk as they are.
C30_OneWalkAtATime ==
  [][/\ Cardinality(liveSubs') <= 1
     /\ \A k \in StartIds :
          SecondStartCommits(k) =>
            /\ walkStartTime' = walkStartTime
            /\ routePoints' = routePoints]_vars

====
